---- MODULE Spec2Model ----
(***************************************************************************)
(* cf-metrics-collector (src/src/main.go): zone discovery, the poll loop   *)
(* over the zone registry, fetchZoneStats and the three gauge families.    *)
(*                                                                         *)
(* Threads: main (discovery, go func, ListenAndServe) and the poll         *)
(* goroutine.  The scrape handler (promhttp) only reads the gauges.  The   *)
(* remote API is the environment: every outbound call draws its answer     *)
(* from a bounded set.                                                     *)
(***************************************************************************)
EXTENDS Integers, Sequences, FiniteSets, TLC

(* ------------------------------ bounds --------------------------------- *)

\* longest `result` array of a zone-listing response
MaxResult == 3

\* most daily groups in one stats response
MaxGroups == 2

(* --------------------------- exit statuses ----------------------------- *)

\* main returns after a failed discovery (main.go:218): status 0
ExitReturn == 0

\* log.Fatal of ListenAndServe's error (main.go:235): os.Exit(1)
ExitFatal == 1

\* an unrecovered panic in a goroutine (main.go:190) ends the process with 2
ExitPanic == 2

(* ------------------------- the remote's answers ------------------------ *)

\* entries of the zone-listing `result` array: {id, name, status}
ZoneRecs ==
    { [id |-> "id-a", name |-> "a.com", status |-> "active"],
      [id |-> "id-b", name |-> "b.com", status |-> "active"],
      [id |-> "id-c", name |-> "c.com", status |-> "pending"] }

RECURSIVE SeqsUpTo(_, _)
SeqsUpTo(S, n) ==
    IF n = 0 THEN { <<>> }
    ELSE LET shorter == SeqsUpTo(S, n - 1)
         IN  shorter \cup { Append(s, x) : s \in shorter, x \in S }

\* what http.DefaultClient.Do + io.ReadAll + json.Unmarshal can see for the
\* zone listing: a transport error, a body Unmarshal rejects, or a body that
\* parses, with its `result` array (empty for [], null or a missing field)
\* `result` arrays: the listing names a zone at most once
ResultArrays ==
    { r \in SeqsUpTo(ZoneRecs, MaxResult) :
        \A i, j \in DOMAIN r : i /= j => r[i] /= r[j] }

ListingResponses ==
    { [kind |-> "transport"], [kind |-> "badjson"] }
        \cup { [kind |-> "ok", result |-> r] : r \in ResultArrays }

\* JSON values of edgeResponseStatus as json.Number receives them
JsonNull == [type |-> "null"]

JsonNum(lit) == [type |-> "number", lit |-> lit]

\* daily groups a stats response can carry
Groups ==
    { [date |-> "2024-01-01", requests |-> 100, cachedRequests |-> 40,
       responseStatusMap |->
           << [edgeResponseStatus |-> JsonNum("200"), requests |-> 90],
              [edgeResponseStatus |-> JsonNull, requests |-> 3],
              [edgeResponseStatus |-> JsonNum("404"), requests |-> 10] >>],
      [date |-> "2024-01-01", requests |-> 120, cachedRequests |-> 45,
       responseStatusMap |->
           << [edgeResponseStatus |-> JsonNum("404"), requests |-> 25],
              [edgeResponseStatus |-> JsonNum("200"), requests |-> 95] >>],
      [date |-> "2024-01-02", requests |-> 7, cachedRequests |-> 0,
       responseStatusMap |-> << >>] }

\* what the stats query can see: a transport error, a body Unmarshal
\* rejects, or a body that parses, with data.viewer.zones (empty for an
\* error envelope, "data": null, or "zones": []) and the first zone's groups
StatsResponses ==
    { [kind |-> "transport"], [kind |-> "badjson"], [kind |-> "ok", zones |-> << >>] }
        \cup { [kind |-> "ok", zones |-> << gs >>] : gs \in SeqsUpTo(Groups, MaxGroups) }

(* ------------------------------- state --------------------------------- *)

VARIABLES
    zones,            \* the registry: sequence of [Tag, ID]
    zonesMutex,       \* readers holding RLock
    reqMetric,        \* gauge family (zone_tag, date) -> value
    cachedMetric,     \* gauge family (zone_tag, date) -> value
    byStatusMetric,   \* gauge family (zone_tag, date, status_code) -> value
    mainPc,           \* position of main
    pollPc,           \* position of the poll goroutine
    idx,              \* position of `range zones` in the current pass
    alive,            \* the process is running
    exitCode,         \* exit status once not alive
    listing,          \* history: the zone-listing response discovery saw
    discoverErr,      \* history: assignAllZones returned an error
    bindErr,          \* history: ListenAndServe returned
    lastCall,         \* history: this pass's last fetchZoneStats call, its Set calls
    prev,             \* history: the gauge families before that call
    fetchedThisPass   \* history: registry positions fetched in this pass

vars == << zones, zonesMutex, reqMetric, cachedMetric, byStatusMetric, mainPc,
           pollPc, idx, alive, exitCode, listing, discoverErr, bindErr,
           lastCall, prev, fetchedThisPass >>

EmptyGauge == [k \in {} |-> 0]

NoGauges == [req |-> EmptyGauge, cached |-> EmptyGauge, status |-> EmptyGauge]

NoCall ==
    [zone |-> [Tag |-> "", ID |-> ""], resp |-> [kind |-> "none"],
     reqLog |-> << >>, cachedLog |-> << >>, statusLog |-> << >>]

(* --------------------------- assignAllZones ---------------------------- *)

\* the filter of main.go:117 left out
KeepsEveryZone(rec) == TRUE

\* main.go:117
IsActive(rec) == rec.status = "active"

\* main.go:116-124: the filter loop, appending in response order
RECURSIVE ActiveZones(_)
ActiveZones(result) ==
    IF result = << >> THEN << >>
    ELSE LET rec == Head(result)
         IN  IF IsActive(rec)
             THEN << [Tag |-> rec.name, ID |-> rec.id] >> \o ActiveZones(Tail(result))
             ELSE ActiveZones(Tail(result))

\* the check of main.go:125 left out
NeverEmpty(zonesCopy) == FALSE

\* main.go:125
NoActiveZones(zonesCopy) == Len(zonesCopy) = 0

\* main.go:86-135: the error returned and the registry afterwards
assignAllZones(resp, registry) ==
    IF resp.kind = "transport" THEN [err |-> TRUE, zones |-> registry]
    ELSE IF resp.kind = "badjson" \/ Len(resp.result) = 0
         THEN [err |-> TRUE, zones |-> registry]
    ELSE LET zonesCopy == ActiveZones(resp.result)
         IN  IF NoActiveZones(zonesCopy)
             THEN [err |-> TRUE, zones |-> registry]
             ELSE [err |-> FALSE, zones |-> zonesCopy]

(* ---------------------------- fetchZoneStats --------------------------- *)

\* a gauge written with Add where Set is meant
SetAccumulates(m, key, v) ==
    [k \in (DOMAIN m) \cup {key} |->
        IF k = key THEN (IF key \in DOMAIN m THEN m[key] + v ELSE v) ELSE m[k]]

\* a family Reset() before each write
SetResetsFamily(m, key, v) == [k \in {key} |-> v]

\* GaugeVec.WithLabelValues(key...).Set(v) (main.go:191): the series named by
\* the label values is created when absent and its value becomes v
Set(m, key, v) ==
    [k \in (DOMAIN m) \cup {key} |-> IF k = key THEN v ELSE m[k]]

\* json.Number.String() (main.go:194): the literal's text; a null or missing
\* edgeResponseStatus leaves the zero value, the empty string
NumberString(j) == IF j.type = "number" THEN j.lit ELSE ""

\* the guard of main.go:195 left out
KeepsEveryStatus(str) == TRUE

\* main.go:195
KeepStatus(str) == str /= ""

\* main.go:191
ReqValue(group) == group.requests

\* main.go:192 copied from the line above it with the field unchanged
CachedValueCopiesRequests(group) == group.requests

\* main.go:192
CachedValue(group) == group.cachedRequests

\* main.go:193-198: the inner loop over one group's responseStatusMap
RECURSIVE StatusLoop(_, _, _, _)
StatusLoop(st, tag, date, statusMap) ==
    IF statusMap = << >> THEN st
    ELSE LET status == Head(statusMap)
             EdgeResponseStatusStr == NumberString(status.edgeResponseStatus)
             key == << tag, date, EdgeResponseStatusStr >>
             next ==
                 IF KeepStatus(EdgeResponseStatusStr)
                 THEN [st EXCEPT
                          !.status = Set(@, key, status.requests),
                          !.statusLog =
                              Append(@, [key |-> key, value |-> status.requests])]
                 ELSE st
         IN  StatusLoop(next, tag, date, Tail(statusMap))

\* main.go:190-199: the loop over the first zone's daily groups
RECURSIVE GroupLoop(_, _, _)
GroupLoop(st, tag, groups) ==
    IF groups = << >> THEN st
    ELSE LET group == Head(groups)
             key == << tag, group.date >>
             afterReq ==
                 [st EXCEPT
                     !.req = Set(@, key, ReqValue(group)),
                     !.reqLog = Append(@, [key |-> key, value |-> ReqValue(group)])]
             afterCached ==
                 [afterReq EXCEPT
                     !.cached = Set(@, key, CachedValue(group)),
                     !.cachedLog =
                         Append(@, [key |-> key, value |-> CachedValue(group)])]
             afterStatus ==
                 StatusLoop(afterCached, tag, group.date, group.responseStatusMap)
         IN  GroupLoop(afterStatus, tag, Tail(groups))

\* main.go:137-200: what one call does to the gauge families, the Set calls
\* it makes, and whether it panics.  Zones[0] of an empty slice (main.go:190)
\* is an index-out-of-range panic; nothing recovers it.
fetchZoneStats(zone, resp, req, cached, status) ==
    LET st0 == [req |-> req, cached |-> cached, status |-> status, panic |-> FALSE,
                reqLog |-> << >>, cachedLog |-> << >>, statusLog |-> << >>]
    IN  IF resp.kind = "transport" THEN st0
        ELSE IF resp.kind = "badjson" THEN st0
        ELSE IF Len(resp.zones) = 0 THEN [st0 EXCEPT !.panic = TRUE]
        ELSE GroupLoop(st0, zone.Tag, resp.zones[1])

(* ------------------------------- main ---------------------------------- *)

Init ==
    /\ zones = << >>
    /\ zonesMutex = 0
    /\ reqMetric = EmptyGauge
    /\ cachedMetric = EmptyGauge
    /\ byStatusMetric = EmptyGauge
    /\ mainPc = "discover"
    /\ pollPc = "none"
    /\ idx = 0
    /\ alive = TRUE
    /\ exitCode = 0
    /\ listing = [kind |-> "none"]
    /\ discoverErr = FALSE
    /\ bindErr = FALSE
    /\ lastCall = NoCall
    /\ prev = NoGauges
    /\ fetchedThisPass = << >>

\* main.go:216-219 without the return
ContinuesAfterError(err) == "go"

\* main.go:216-219: where main goes once assignAllZones has returned
AfterDiscovery(err) == IF err THEN "returned" ELSE "go"

\* main.go:215-219
MainDiscover ==
    /\ alive
    /\ mainPc = "discover"
    /\ \E resp \in ListingResponses :
          \E out \in { assignAllZones(resp, zones) } :
          \E to \in { AfterDiscovery(out.err) } :
              /\ listing' = resp
              /\ zones' = out.zones
              /\ discoverErr' = out.err
              /\ mainPc' = to
              /\ alive' = (to /= "returned")
              /\ exitCode' = IF to = "returned" THEN ExitReturn ELSE exitCode
    /\ UNCHANGED << zonesMutex, reqMetric, cachedMetric, byStatusMetric, pollPc,
                    idx, bindErr, lastCall, prev, fetchedThisPass >>

\* main.go:221-231: go func() starts the poll goroutine
MainGo ==
    /\ alive
    /\ mainPc = "go"
    /\ mainPc' = "listen"
    /\ pollPc' = "pass"
    /\ UNCHANGED << zones, zonesMutex, reqMetric, cachedMetric, byStatusMetric,
                    idx, alive, exitCode, listing, discoverErr, bindErr,
                    lastCall, prev, fetchedThisPass >>

\* main.go:233-235: ListenAndServe binds :28191 and serves, or returns an
\* error and log.Fatal ends the process
MainListen ==
    /\ alive
    /\ mainPc = "listen"
    /\ \E bound \in BOOLEAN :
          /\ mainPc' = IF bound THEN "serving" ELSE "fatal"
          /\ bindErr' = ~bound
          /\ alive' = bound
          /\ exitCode' = IF bound THEN exitCode ELSE ExitFatal
    /\ UNCHANGED << zones, zonesMutex, reqMetric, cachedMetric, byStatusMetric,
                    pollPc, idx, listing, discoverErr, lastCall, prev,
                    fetchedThisPass >>

(* --------------------------- the poll goroutine ------------------------ *)

\* main.go:223-224: RLock, and the range loop starts at the first zone
PollBeginPass ==
    /\ alive
    /\ pollPc = "pass"
    /\ zonesMutex' = zonesMutex + 1
    /\ idx' = 1
    /\ fetchedThisPass' = << >>
    /\ pollPc' = "range"
    /\ UNCHANGED << zones, reqMetric, cachedMetric, byStatusMetric, mainPc, alive,
                    exitCode, listing, discoverErr, bindErr, lastCall, prev >>

\* main.go:224-226: one iteration of the range loop, fetchZoneStats(zone)
PollFetch ==
    /\ alive
    /\ pollPc = "range"
    /\ idx <= Len(zones)
    /\ \E resp \in StatsResponses :
          \E out \in { fetchZoneStats(zones[idx], resp, reqMetric, cachedMetric,
                                      byStatusMetric) } :
              /\ reqMetric' = out.req
              /\ cachedMetric' = out.cached
              /\ byStatusMetric' = out.status
              /\ lastCall' = [zone |-> zones[idx], resp |-> resp,
                              reqLog |-> out.reqLog, cachedLog |-> out.cachedLog,
                              statusLog |-> out.statusLog]
              /\ alive' = ~out.panic
              /\ exitCode' = IF out.panic THEN ExitPanic ELSE exitCode
              /\ idx' = IF out.panic THEN idx ELSE idx + 1
    /\ prev' = [req |-> reqMetric, cached |-> cachedMetric, status |-> byStatusMetric]
    /\ fetchedThisPass' = Append(fetchedThisPass, idx)
    /\ UNCHANGED << zones, zonesMutex, mainPc, pollPc, listing, discoverErr,
                    bindErr >>

\* main.go:227: the range loop is over, RUnlock
PollEndPass ==
    /\ alive
    /\ pollPc = "range"
    /\ idx > Len(zones)
    /\ zonesMutex' = zonesMutex - 1
    /\ pollPc' = "sleep"
    /\ lastCall' = NoCall
    /\ prev' = NoGauges
    /\ UNCHANGED << zones, reqMetric, cachedMetric, byStatusMetric, mainPc, idx,
                    alive, exitCode, listing, discoverErr, bindErr, fetchedThisPass >>

\* main.go:229: time.Sleep(5 * time.Minute) returns
PollWake ==
    /\ alive
    /\ pollPc = "sleep"
    /\ pollPc' = "pass"
    /\ UNCHANGED << zones, zonesMutex, reqMetric, cachedMetric, byStatusMetric,
                    mainPc, idx, alive, exitCode, listing, discoverErr, bindErr,
                    lastCall, prev, fetchedThisPass >>

Next ==
    \/ MainDiscover
    \/ MainGo
    \/ MainListen
    \/ PollBeginPass
    \/ PollFetch
    \/ PollEndPass
    \/ PollWake

Spec == Init /\ [][Next]_vars

(* ------------------------- reading the history ------------------------- *)

\* this step is one iteration of the range loop: a fetchZoneStats call
FetchStep == fetchedThisPass' = Append(fetchedThisPass, idx)

\* the call got a body that parsed and carried zone data
Answered(call) == call.resp.kind = "ok" /\ Len(call.resp.zones) > 0

\* the call failed: transport error, unparsable body, or no zone data
Failed(call) == call.resp.kind /= "none" /\ ~Answered(call)

Keys(log) == { log[i].key : i \in DOMAIN log }

\* the value of the last Set call of `log` on key k
LastValue(log, k) ==
    LET I == { i \in DOMAIN log : log[i].key = k }
    IN  log[CHOOSE i \in I : \A j \in I : j <= i].value

PairwiseDistinctDates(gs) ==
    \A i, j \in DOMAIN gs : i /= j => gs[i].date /= gs[j].date

ActiveIdx(result) == { i \in DOMAIN result : result[i].status = "active" }

(* ------------------------------ the claims ----------------------------- *)

\* C1: within a pass over [A, B, ...], whatever the stats query for A returns
\* (transport error, unparsable body, a body with no zone data), the pass goes
\* on to B: the process is still running and the range loop has moved to the
\* next zone.
C1_PassContinuesAfterAnyAnswer ==
    [][ (FetchStep /\ idx < Len(zones))
            => (alive' /\ pollPc' = "range" /\ idx' = idx + 1) ]_vars

\* C2: a failed discovery ends the process with a non-zero exit status, so
\* does a listener that cannot bind, and no other run ends.
C2_ExitStatus ==
    /\ discoverErr => (~alive /\ exitCode /= 0)
    /\ bindErr => (~alive /\ exitCode /= 0)
    /\ ~alive => (discoverErr \/ bindErr)

\* C3: after a failed discovery no pass begins, no stats query is issued, no
\* gauge is written and the endpoint is not served; and a pass only ever runs
\* over a non-empty registry.
C3_PollOnlyAfterDiscovery ==
    /\ discoverErr =>
          /\ pollPc = "none"
          /\ mainPc = "returned"
          /\ fetchedThisPass = << >>
          /\ lastCall = NoCall
          /\ reqMetric = EmptyGauge
          /\ cachedMetric = EmptyGauge
          /\ byStatusMetric = EmptyGauge
    /\ pollPc \in {"pass", "range", "sleep"} => (~discoverErr /\ zones /= << >>)

\* discovery saw an empty result array and main has returned
C3_Witness ==
    /\ listing.kind = "ok"
    /\ listing.result = << >>
    /\ discoverErr
    /\ ~alive
    /\ pollPc = "none"

\* C4: when the listing call fails in transport, its body does not parse, or
\* it names no zone with status "active", assignAllZones returns an error and
\* the registry is still empty.
C4_FailedDiscoveryLeavesRegistryEmpty ==
    (\/ listing.kind \in {"transport", "badjson"}
     \/ (listing.kind = "ok" /\ ActiveIdx(listing.result) = {}))
        => (discoverErr /\ zones = << >>)

\* discovery saw zones, none of them active
C4_Witness ==
    /\ listing.kind = "ok"
    /\ Len(listing.result) >= 1
    /\ ActiveIdx(listing.result) = {}
    /\ discoverErr
    /\ zones = << >>

\* C5: a listing with N >= 1 active zones and M others sets the registry to
\* exactly the N active ones, tag = name and id = id, in response order; no
\* zone of another status is in the registry.
C5_RegistryIsTheActiveZones ==
    (listing.kind = "ok" /\ ActiveIdx(listing.result) /= {}) =>
        LET r == listing.result
            A == ActiveIdx(r)
        IN  /\ ~discoverErr
            /\ Len(zones) = Cardinality(A)
            /\ \A i \in A :
                  zones[Cardinality({ j \in A : j <= i })]
                      = [Tag |-> r[i].name, ID |-> r[i].id]
            /\ \A k \in DOMAIN zones : \A i \in (DOMAIN r) \ A :
                  zones[k].ID /= r[i].id /\ zones[k].Tag /= r[i].name

\* two active zones and one other, the other not last
C5_Witness ==
    /\ listing.kind = "ok"
    /\ Cardinality(ActiveIdx(listing.result)) = 2
    /\ Len(listing.result) = 3
    /\ 3 \in ActiveIdx(listing.result)
    /\ Len(zones) = 2
    /\ mainPc = "go"

\* C6: a call answered with K daily groups makes exactly K Set calls on
\* requests_total and K on cached_requests_total, the i-th on (zone tag, date
\* of group i) with that group's requests and cachedRequests; every key
\* written is in the family, and when the dates differ pairwise the K keys
\* differ and each holds its group's values.
C6_OneWritePerGroup ==
    Answered(lastCall) =>
        LET gs == lastCall.resp.zones[1]
            tag == lastCall.zone.Tag
        IN  /\ Len(lastCall.reqLog) = Len(gs)
            /\ Len(lastCall.cachedLog) = Len(gs)
            /\ \A i \in DOMAIN gs :
                  /\ lastCall.reqLog[i]
                        = [key |-> << tag, gs[i].date >>, value |-> gs[i].requests]
                  /\ lastCall.cachedLog[i]
                        = [key |-> << tag, gs[i].date >>, value |-> gs[i].cachedRequests]
                  /\ << tag, gs[i].date >> \in DOMAIN reqMetric
                  /\ << tag, gs[i].date >> \in DOMAIN cachedMetric
            /\ PairwiseDistinctDates(gs) =>
                  /\ Cardinality(Keys(lastCall.reqLog)) = Len(gs)
                  /\ Cardinality(Keys(lastCall.cachedLog)) = Len(gs)
                  /\ \A i \in DOMAIN gs :
                        /\ reqMetric[<< tag, gs[i].date >>] = gs[i].requests
                        /\ cachedMetric[<< tag, gs[i].date >>] = gs[i].cachedRequests

\* a call answered with two groups of different dates
C6_Witness ==
    /\ Answered(lastCall)
    /\ Len(lastCall.resp.zones[1]) = 2
    /\ PairwiseDistinctDates(lastCall.resp.zones[1])
    /\ Cardinality(DOMAIN reqMetric) >= 2

\* C7: no series of status_code_requests_total has an empty status_code, and
\* every status entry of an answered call whose status code is not empty is
\* written, as (zone tag, date, status code) with the entry's requests.
C7_EmptyStatusDropped ==
    /\ \A k \in DOMAIN byStatusMetric : k[3] /= ""
    /\ \A n \in DOMAIN lastCall.statusLog : lastCall.statusLog[n].key[3] /= ""
    /\ Answered(lastCall) =>
          LET gs == lastCall.resp.zones[1]
              tag == lastCall.zone.Tag
          IN  \A i \in DOMAIN gs : \A j \in DOMAIN gs[i].responseStatusMap :
                  LET e == gs[i].responseStatusMap[j]
                  IN  e.edgeResponseStatus.type = "number" =>
                        /\ \E n \in DOMAIN lastCall.statusLog :
                              lastCall.statusLog[n]
                                  = [key |-> << tag, gs[i].date, e.edgeResponseStatus.lit >>,
                                     value |-> e.requests]
                        /\ << tag, gs[i].date, e.edgeResponseStatus.lit >>
                              \in DOMAIN byStatusMetric

\* an answered call with an entry of empty status code beside written ones
C7_Witness ==
    /\ Answered(lastCall)
    /\ \E i \in DOMAIN lastCall.resp.zones[1] :
          \E j \in DOMAIN lastCall.resp.zones[1][i].responseStatusMap :
              lastCall.resp.zones[1][i].responseStatusMap[j].edgeResponseStatus = JsonNull
    /\ Len(lastCall.statusLog) >= 2
    /\ DOMAIN byStatusMetric /= {}

\* C8: after a call, every key it wrote holds exactly the value of the call's
\* last write to it, whatever it held before; and a call whose writes all
\* carry the value already held leaves the three families as they were.
C8_LastWriteWins ==
    /\ \A k \in Keys(lastCall.reqLog) :
          reqMetric[k] = LastValue(lastCall.reqLog, k)
    /\ \A k \in Keys(lastCall.cachedLog) :
          cachedMetric[k] = LastValue(lastCall.cachedLog, k)
    /\ \A k \in Keys(lastCall.statusLog) :
          byStatusMetric[k] = LastValue(lastCall.statusLog, k)
    /\ (/\ lastCall.resp.kind /= "none"
        /\ \A i \in DOMAIN lastCall.reqLog :
              /\ lastCall.reqLog[i].key \in DOMAIN prev.req
              /\ prev.req[lastCall.reqLog[i].key] = lastCall.reqLog[i].value
        /\ \A i \in DOMAIN lastCall.cachedLog :
              /\ lastCall.cachedLog[i].key \in DOMAIN prev.cached
              /\ prev.cached[lastCall.cachedLog[i].key] = lastCall.cachedLog[i].value
        /\ \A i \in DOMAIN lastCall.statusLog :
              /\ lastCall.statusLog[i].key \in DOMAIN prev.status
              /\ prev.status[lastCall.statusLog[i].key] = lastCall.statusLog[i].value)
          => (/\ reqMetric = prev.req
              /\ cachedMetric = prev.cached
              /\ byStatusMetric = prev.status)

\* a key that held another value before the call, in each family
C8_Witness ==
    /\ \E k \in Keys(lastCall.reqLog) :
          /\ k \in DOMAIN prev.req
          /\ prev.req[k] /= LastValue(lastCall.reqLog, k)
          /\ reqMetric[k] = LastValue(lastCall.reqLog, k)
    /\ \E k \in Keys(lastCall.statusLog) :
          /\ k \in DOMAIN prev.status
          /\ prev.status[k] /= LastValue(lastCall.statusLog, k)
          /\ byStatusMetric[k] = LastValue(lastCall.statusLog, k)

\* C9: a failed stats fetch removes nothing from the registry and leaves the
\* poll loop running, so that the zone is fetched again in the next pass.
C9_FailedFetchIsRetried ==
    [][ (FetchStep /\ Failed(lastCall'))
            => (zones' = zones /\ alive' /\ pollPc' = "range" /\ idx' = idx + 1) ]_vars

\* C10: in every step, each series of the three families is still there
\* afterwards, with the value it had unless this step is a call that wrote
\* it, and then with the value of the call's last write to it.
C10_SeriesOnlyGrow ==
    [][ /\ \A k \in DOMAIN reqMetric :
              /\ k \in DOMAIN reqMetric'
              /\ \/ reqMetric'[k] = reqMetric[k]
                 \/ /\ FetchStep
                    /\ k \in Keys(lastCall'.reqLog)
                    /\ reqMetric'[k] = LastValue(lastCall'.reqLog, k)
        /\ \A k \in DOMAIN cachedMetric :
              /\ k \in DOMAIN cachedMetric'
              /\ \/ cachedMetric'[k] = cachedMetric[k]
                 \/ /\ FetchStep
                    /\ k \in Keys(lastCall'.cachedLog)
                    /\ cachedMetric'[k] = LastValue(lastCall'.cachedLog, k)
        /\ \A k \in DOMAIN byStatusMetric :
              /\ k \in DOMAIN byStatusMetric'
              /\ \/ byStatusMetric'[k] = byStatusMetric[k]
                 \/ /\ FetchStep
                    /\ k \in Keys(lastCall'.statusLog)
                    /\ byStatusMetric'[k] = LastValue(lastCall'.statusLog, k) ]_vars

\* series of two zones are there after a failed fetch that followed them
C10_Witness ==
    /\ Failed(lastCall)
    /\ alive
    /\ prev.req /= EmptyGauge
    /\ prev.status /= EmptyGauge
    /\ reqMetric = prev.req
    /\ cachedMetric = prev.cached
    /\ byStatusMetric = prev.status
    /\ \E k1, k2 \in DOMAIN reqMetric : k1[1] /= k2[1]

====
